---------------------------- MODULE Spec2Model ----------------------------
(***************************************************************************)
(* Lighter-Hub: the extension registry and its persistence store           *)
(* (app/contexts/ExtensionContext.tsx), the per-tab navigation stack       *)
(* (components/ExtensionNavigator) and the media control bridge            *)
(* (contexts/MediaPlayerContext), as state machines.                       *)
(*                                                                         *)
(* Four specifications share the module: Spec (registry and store),        *)
(* NavSpec (navigation stack), VideoSpec (video session) and MusicSpec     *)
(* (audio notification).  Each leaves the other parts' variables alone.    *)
(***************************************************************************)
EXTENDS Integers, Sequences, FiniteSets, TLC

VARIABLES
    platform,     \* Platform.OS: "web" or "native"
    \* ---- ExtensionProvider ------------------------------------------------
    extensions,   \* useState<InstalledExtension[]>: the in-memory collection
    persisted,    \* AsyncStorage[STORAGE_KEY]: the ordered map id -> PersistedExt
    rehydrated,   \* the startup effect: "pending", then "loaded" or "failed" (the read)
    ops,          \* the install / uninstall calls in flight, per call slot
    started,      \* number of install / uninstall calls made so far
    clock,        \* Date.now()
    last,         \* the call that settled most recently, and its result
    boots,        \* number of process restarts so far
    \* ---- ExtensionNavigator -----------------------------------------------
    stack,        \* useState<StackEntry[]>
    pending,      \* withTiming callbacks not yet run, oldest first
    navlog,       \* the calls of the current burst (each made while one was in flight)
    base,         \* the stack when the first call of the current burst was made
    renderedKey,  \* TabLayout's renderedKey: the tab whose navigator is rendered
    owners,       \* per stack entry and per call in flight: the tab that pushed it
    handle,       \* the stack of the render whose navigation object the extension holds
    got,          \* the latest getParams() call: its value and the top entry then
    before,       \* the stack before the burst preceding the current one, if a lone push
    settling,     \* the fade-in and spring a midpoint callback started are still running
    cut,          \* the fade-out of the oldest call in flight was replaced before it ended
    \* ---- MediaPlayerProvider / LhubVideoPlayer -----------------------------
    videoOptions, \* useState<VideoPlayerOptions | null>
    player,       \* the mounted LhubVideoPlayer instance, or NoPlayer
    device,       \* orientation lock, navigation bar, status bar
    timers,       \* the setTimeout(enterImmersive, ...) timers not yet run or cleared
    vcount,       \* counts: opens, closes, onClose invocations, acquires, releases ...
    resolving,    \* the resolveToLocalCache promises not yet settled, each with
                  \* the uri it was started for and its effect's cancelled flag
    \* ---- MediaPlayerProvider (music notification) --------------------------
    notifInfo,    \* useState<MusicNotificationInfo | null>
    rendered,     \* the notifInfo of the latest render (what the callbacks close over)
    handlersRef,  \* useRef<MusicNotificationHandlers>
    mediaSession, \* the platform's media surface: metadata and action handlers
    invoked,      \* the latest platform event since the last setHandlers, and what it ran
    prevHandlers, \* argument of the setHandlers call before the latest one
    \* ---- evalMainJs as a function of the source ----------------------------
    evalSrc,      \* the main.js source handed to evalMainJs
    evalRes,      \* what evalMainJs returned or threw, NotRun before the call
    \* ---- api.skip as a function of its inputs ------------------------------
    skipArgs,     \* duration and position of the render, and the argument of skip
    skipTarget,   \* the seconds skip seeks to, NotSkipped before the call
    \* ---- the media player bridge of the sandbox ---------------------------
    globalMediaPlayerRef, \* let _globalMediaPlayerRef = null: the slot
    api,          \* the table buildAPI returned, NoApi before the call
    called,       \* the latest musicPlayer / videoPlayer call and the bridge it reached
    \* ---- getJSZip ----------------------------------------------------------
    windowJSZip,  \* (window as any).JSZip is defined
    zipCalls,     \* the getJSZip calls of the process, each with how it went
    \* ---- videoPlayer.isOpen of the sandbox handle ---------------------------
    slotIsOpen,   \* videoPlayer.isOpen of the context value held by the bridge slot
    isOpenResult, \* the latest isOpen() call: what it returned, and whether a session was open
    \* ---- TabLayout ----------------------------------------------------------
    tabLayout     \* the extensions it renders with (id and tab ids), activeKey, renderedKey

regVars   == <<extensions, persisted, rehydrated, ops, started, clock, last, boots>>
navVars   == <<stack, pending, navlog, base, renderedKey, owners, handle, got, before,
               settling, cut>>
videoVars == <<videoOptions, player, device, timers, vcount, resolving>>
musicVars == <<notifInfo, rendered, handlersRef, mediaSession, invoked, prevHandlers>>
evalVars  == <<evalSrc, evalRes>>
skipVars  == <<skipArgs, skipTarget>>
bridgeVars == <<globalMediaPlayerRef, api, called>>
zipVars   == <<windowJSZip, zipCalls>>
openVars  == <<slotIsOpen, isOpenResult>>
vars      == <<platform, regVars, navVars, videoVars, musicVars, evalVars, skipVars,
               bridgeVars, zipVars, openVars, tabLayout>>

---------------------------------------------------------------------------
(* Bounds of the model *)

MaxOps == 2          \* install / uninstall calls per run
MaxRestarts == 1     \* process restarts per run
MaxSeq == 4          \* install / uninstall calls of a run in which none overlaps
MaxStack == 3        \* entries of a navigation stack, callbacks in flight included
MaxPending == 2      \* midpoint callbacks in flight
MaxBurst == 3        \* navigation calls of one burst
MaxOpens == 3        \* videoPlayer.open calls per run
MaxTabs == 2         \* tabs of an export object given to evalMainJs
MaxSeconds == 3      \* duration and position of a video, in seconds
MaxLate == 2         \* completions that arrive after their instance is gone
MaxCalls == 3        \* musicPlayer / videoPlayer calls through one table
MaxZipCalls == 4     \* getJSZip calls (web installs) per process

---------------------------------------------------------------------------
(* Sequences as ordered maps *)

Range(s) == {s[i] : i \in 1..Len(s)}

RECURSIVE SeqFilterId(_, _)
\* prev.filter(e => key(e) !== id), for records that carry their key in .id
SeqFilterId(s, id) ==
    IF s = <<>> THEN <<>>
    ELSE IF Head(s).id = id THEN SeqFilterId(Tail(s), id)
         ELSE <<Head(s)>> \o SeqFilterId(Tail(s), id)

---------------------------------------------------------------------------
(* Extension sources and evalMainJs *)

Ids == {"a", "b", "c"}

GoodTab == [id |-> "home", label |-> "Home", icon |-> "home",
            component |-> "function", screens |-> "undefined"]

\* What main.js does when it is evaluated: it throws, or it leaves an export
\* object.  version tells two sources with the same id apart.
GoodSrc(i, v) == [throws |-> FALSE, exports |-> "object", id |-> i, name |-> "N",
                  version |-> v, tabs |-> <<GoodTab>>]
ThrowSrc(i)   == [GoodSrc(i, 1) EXCEPT !.throws = TRUE]
NoIdSrc       == [GoodSrc("a", 1) EXCEPT !.id = ""]
NoNameSrc     == [GoodSrc("a", 1) EXCEPT !.name = ""]
NoTabsSrc     == [GoodSrc("a", 1) EXCEPT !.tabs = <<>>]
NoLabelSrc    == [GoodSrc("a", 1) EXCEPT !.tabs = <<[GoodTab EXCEPT !.label = ""]>>]
BadCompSrc    == [GoodSrc("a", 1) EXCEPT
                     !.tabs = <<GoodTab, [GoodTab EXCEPT !.component = "undefined"]>>]
NoExportSrc   == [GoodSrc("a", 1) EXCEPT !.exports = "undefined"]

\* JavaScript values by kind: "" and "zero" (0, false) are falsy as undefined is
Truthy(v) == v \notin {"undefined", "", "zero"}

\* typeof v
TypeOf(v) ==
    CASE v = "undefined" -> "undefined"
      [] v = "object"    -> "object"
      [] v = "function"  -> "function"
      [] v = "zero"      -> "number"
      [] OTHER           -> "string"

Ok(m)    == [ok |-> TRUE,  error |-> "", value |-> m]
Err(msg) == [ok |-> FALSE, error |-> msg, value |-> "none"]

RECURSIVE CheckTabs(_)
\* for (const tab of exp.tabs) { ... }: the first violation, or "" if none
CheckTabs(tabs) ==
    IF tabs = <<>> THEN ""
    ELSE LET tab == Head(tabs) IN
         IF ~Truthy(tab.id) THEN "Tab missing id"
         ELSE IF ~Truthy(tab.label) THEN "Tab missing label"
         ELSE IF ~Truthy(tab.icon) THEN "Tab missing icon"
         ELSE IF TypeOf(tab.component) # "function"
              THEN "Tab component must be a function"
         ELSE IF Truthy(tab.screens) /\ TypeOf(tab.screens) # "object"
              THEN "Tab screens must be an object"
         ELSE CheckTabs(Tail(tabs))

Manifest(src) == [id |-> src.id, name |-> src.name, version |-> src.version,
                  tabs |-> src.tabs]

\* evalMainJs with the name checked before the id
evalMainJsNameFirst(src) ==
    IF src.throws THEN Err("JS error in main.js")
    ELSE IF src.exports # "object"
         THEN Err("main.js must assign module.exports = { id, name, tabs }")
    ELSE IF ~Truthy(src.name) THEN Err("Missing field: name")
    ELSE IF ~Truthy(src.id) THEN Err("Missing field: id")
    ELSE IF src.tabs = <<>> THEN Err("Missing or empty tabs array")
    ELSE IF CheckTabs(src.tabs) # "" THEN Err(CheckTabs(src.tabs))
    ELSE Ok(Manifest(src))

\* tabs = <<>> stands for a missing, non-array or empty exp.tabs
evalMainJs(src) ==
    IF src.throws THEN Err("JS error in main.js")
    ELSE IF src.exports # "object"
         THEN Err("main.js must assign module.exports = { id, name, tabs }")
    ELSE IF ~Truthy(src.id) THEN Err("Missing field: id")
    ELSE IF ~Truthy(src.name) THEN Err("Missing field: name")
    ELSE IF src.tabs = <<>> THEN Err("Missing or empty tabs array")
    ELSE IF CheckTabs(src.tabs) # "" THEN Err(CheckTabs(src.tabs))
    ELSE Ok(Manifest(src))

---------------------------------------------------------------------------
(* Archives and parseZipBuffer *)

Archive(zipOk, hasMain, icon, src) ==
    [zipOk |-> zipOk, hasMain |-> hasMain, icon |-> icon, mainJs |-> src]

\* The files a user can pick.
Archives ==
    { Archive(FALSE, FALSE, "null", NoIdSrc),          \* not a zip
      Archive(TRUE,  FALSE, "null", NoIdSrc),          \* no main.js
      Archive(TRUE,  TRUE,  "png",  GoodSrc("a", 2)),
      Archive(TRUE,  TRUE,  "null", GoodSrc("b", 1)),
      Archive(TRUE,  TRUE,  "null", ThrowSrc("a")),
      Archive(TRUE,  TRUE,  "png",  NoLabelSrc) }

\* The files the native document picker offers.
Assets == {ar \in Archives : ~ar.zipOk \/ (ar.icon = "png" /\ evalMainJs(ar.mainJs).ok)}

parseZipBuffer(ar) ==
    IF ~ar.zipOk THEN Err("Not a valid zip/lhub file")
    ELSE IF ~ar.hasMain THEN Err("main.js not found")
    ELSE LET iconUri == IF ar.icon = "null" THEN "null"
                        ELSE "data:image/png;base64"
             m == evalMainJs(ar.mainJs)
         IN  IF m.ok THEN Ok([manifest |-> m.value, mainJs |-> ar.mainJs,
                              iconUri |-> iconUri])
             ELSE Err(m.error)


---------------------------------------------------------------------------
(* The persisted map: Record<string, PersistedExt>, in insertion order *)

\* stored[manifest.id] = { mainJs, iconUri, installedAt }
PersistedExt(id, src, iconUri, installedAt) ==
    [id |-> id, mainJs |-> src, iconUri |-> iconUri, installedAt |-> installedAt]

Keys(map) == {map[i].id : i \in 1..Len(map)}

\* stored[id] = rec: an existing key keeps its place, a new key goes last
MapSet(map, rec) ==
    IF rec.id \in Keys(map)
    THEN [i \in 1..Len(map) |-> IF map[i].id = rec.id THEN rec ELSE map[i]]
    ELSE Append(map, rec)

\* A faulty delete: the key stays.
MapDeleteKeeps(map, id) == map

\* delete stored[id]
MapDelete(map, id) == SeqFilterId(map, id)

MapGet(map, id) == CHOOSE r \in Range(map) : r.id = id

InstalledExtension(manifest, iconUri, installedAt) ==
    [id |-> manifest.id, manifest |-> manifest, iconUri |-> iconUri,
     installedAt |-> installedAt]

ExtIds(exts) == {exts[i].id : i \in 1..Len(exts)}

\* A faulty updater: appends without removing the entry of the same id.
UpsertNoFilter(prev, installed) == Append(prev, installed)

\* setExtensions(prev => [...prev.filter(e => e.manifest.id !== manifest.id), installed])
Upsert(prev, installed) == Append(SeqFilterId(prev, installed.id), installed)

\* A faulty updater: removes every entry.
RemoveAll(prev, id) == <<>>

\* setExtensions(prev => prev.filter(e => e.manifest.id !== id))
\* a filter that drops nothing
RemoveKeeps(prev, id) == prev

Remove(prev, id) == SeqFilterId(prev, id)

RECURSIVE RehydrateLoopAbort(_)
\* A faulty loop: the first record that fails ends the iteration.
RehydrateLoopAbort(entries) ==
    IF entries = <<>> THEN <<>>
    ELSE LET p == Head(entries)
             m == evalMainJs(p.mainJs)
         IN  IF m.ok
             THEN <<InstalledExtension(m.value, p.iconUri, p.installedAt)>>
                      \o RehydrateLoopAbort(Tail(entries))
             ELSE <<>>

RECURSIVE RehydrateLoopNoIcon(_)
\* A faulty loop: the entries come back without their icon.
RehydrateLoopNoIcon(entries) ==
    IF entries = <<>> THEN <<>>
    ELSE LET p == Head(entries)
             m == evalMainJs(p.mainJs)
         IN  IF m.ok
             THEN <<InstalledExtension(m.value, "null", p.installedAt)>>
                      \o RehydrateLoopNoIcon(Tail(entries))
             ELSE RehydrateLoopNoIcon(Tail(entries))

RECURSIVE RehydrateLoop(_)
\* for (const [id, p] of Object.entries(stored)) { try { ... push } catch { warn } }
RehydrateLoop(entries) ==
    IF entries = <<>> THEN <<>>
    ELSE LET p == Head(entries)
             m == evalMainJs(p.mainJs)
         IN  IF m.ok
             THEN <<InstalledExtension(m.value, p.iconUri, p.installedAt)>>
                      \o RehydrateLoop(Tail(entries))
             ELSE RehydrateLoop(Tail(entries))

\* storageLoad(): the stored map, or {} when the read fails
storageLoad(readOk) == IF readOk THEN persisted ELSE <<>>

\* A faulty save: a failed write clears the store.
storageSaveClears(map, writeOk) == IF writeOk THEN map ELSE <<>>

\* storageSave(map): what the store holds afterwards; a failed write is only logged
storageSave(map, writeOk) == IF writeOk THEN map ELSE persisted

---------------------------------------------------------------------------
(* The stores the program can find at startup: records written by earlier   *)
(* installs, in insertion order, some of whose sources no longer evaluate.  *)

StoredSrc(i, good) == IF good THEN GoodSrc(i, 1) ELSE ThrowSrc(i)

StoredRec(i, good) == PersistedExt(i, StoredSrc(i, good), "null", 0)

InitialStores ==
    { <<>>,
      <<StoredRec("a", TRUE)>>,
      <<StoredRec("a", FALSE), StoredRec("b", TRUE)>>,
      <<StoredRec("c", TRUE), StoredRec("b", FALSE), StoredRec("a", TRUE)>> }

---------------------------------------------------------------------------
(* install / uninstall calls *)

Slots == {1, 2}

\* The ids the user asks to uninstall.
UninstallIds == {"a", "b"}

NoArch   == Archive(FALSE, FALSE, "null", NoIdSrc)
NoRec    == PersistedExt("", NoIdSrc, "null", 0)
NoCall   == [kind |-> "none", id |-> "", ok |-> FALSE, error |-> "", solo |-> FALSE,
             absent |-> FALSE, saveOk |-> FALSE, iconUri |-> "null", installedAt |-> 0, n |-> 0, boot |-> 0]

\* readOk: the call's storageLoad read the store (kept until its write settles);
\* absent: the id was not in the collection when uninstallExtension was called;
\* reported: the caller has told the user that the operation is done
IdleOp == [kind |-> "none", pc |-> "idle", arch |-> NoArch, id |-> "",
           rec |-> NoRec, stored |-> <<>>, saveOk |-> FALSE, solo |-> FALSE,
           readOk |-> FALSE, absent |-> FALSE, reported |-> FALSE]

IsInstall(kind) == kind \in {"installFile", "installNative"}

Free(o)   == ops[o].pc = "idle"
Active(o) == ~Free(o)

\* A call takes the lowest free slot.
Takes(o) == Free(o) /\ \A q \in Slots : q < o => Active(q)

\* The state of the slots when call o starts: the calls in flight are overlapped.
Begin(o, kind, pc, ar, id) ==
    [q \in Slots |->
        IF q = o
        THEN [IdleOp EXCEPT !.kind = kind, !.pc = pc, !.arch = ar, !.id = id,
                            !.solo = rehydrated # "pending" /\ \A r \in Slots \ {o} : Free(r)]
        ELSE IF Active(q) THEN [ops[q] EXCEPT !.solo = FALSE] ELSE ops[q]]

\* The value a call settles with, and what the call was.
\* saveOk, iconUri, installedAt: of the record it wrote; n, boot: when it settled.
Settled(op, ok, error) ==
    [kind |-> op.kind, id |-> op.id, ok |-> ok, error |-> error, solo |-> op.solo,
     absent |-> op.absent, saveOk |-> op.saveOk, iconUri |-> op.rec.iconUri, installedAt |-> op.rec.installedAt,
     n |-> started, boot |-> boots]

\* A step of the registry leaves the navigator and the media bridge alone.
RegOnly == UNCHANGED <<platform, navVars, videoVars, musicVars, evalVars, skipVars,
               bridgeVars, zipVars, openVars, tabLayout>>

\* installFromFile(file), up to its first await
InstallFromFile(o, ar) ==
    /\ platform = "web"
    /\ started < MaxOps /\ Takes(o)
    /\ ops' = Begin(o, "installFile", "parsing", ar, "")
    /\ started' = started + 1
    /\ UNCHANGED <<extensions, persisted, rehydrated, clock, last, boots>>
    /\ RegOnly

\* installFromNative(), up to await DocumentPicker.getDocumentAsync
InstallFromNative(o) ==
    /\ platform = "native"
    /\ started < MaxOps /\ Takes(o)
    /\ ops' = Begin(o, "installNative", "picking", NoArch, "")
    /\ started' = started + 1
    /\ UNCHANGED <<extensions, persisted, rehydrated, clock, last, boots>>
    /\ RegOnly

\* the picker resolves: cancelled, or an asset was picked
PickerCancelled(o) ==
    /\ ops[o].pc = "picking"
    /\ ops' = [ops EXCEPT ![o] = IdleOp]
    /\ last' = Settled(ops[o], FALSE, "cancelled")
    /\ UNCHANGED <<extensions, persisted, rehydrated, started, clock, boots>>
    /\ RegOnly

PickerPicked(o, ar) ==
    /\ ops[o].pc = "picking"
    /\ ops' = [ops EXCEPT ![o].pc = "parsing", ![o].arch = ar]
    /\ UNCHANGED <<extensions, persisted, rehydrated, started, clock, last, boots>>
    /\ RegOnly

\* A faulty failure path: the collection is emptied when parsing fails.
ParseFailedClears(o, r) ==
    /\ ~r.ok
    /\ ops' = [ops EXCEPT ![o] = IdleOp]
    /\ last' = Settled(ops[o], FALSE, r.error)
    /\ extensions' = <<>>
    /\ UNCHANGED <<persisted, rehydrated, started, clock, boots>>

\* catch (e) { return { ok: false, error: e.message } }
ParseFailed(o, r) ==
    /\ ~r.ok
    /\ ops' = [ops EXCEPT ![o] = IdleOp]
    /\ last' = Settled(ops[o], FALSE, r.error)
    /\ UNCHANGED <<extensions, persisted, rehydrated, started, clock, boots>>

\* const installed = {...}; setExtensions(upsert); await storageLoad()
ParseSucceeded(o, r) ==
    /\ r.ok
    /\ LET installed == InstalledExtension(r.value.manifest, r.value.iconUri, clock)
       IN  /\ extensions' = Upsert(extensions, installed)
           /\ ops' = [ops EXCEPT ![o].pc = "loading", ![o].arch = NoArch,
                                 ![o].id = installed.id,
                                 ![o].rec = PersistedExt(installed.id, r.value.mainJs,
                                                         installed.iconUri,
                                                         installed.installedAt)]
    /\ clock' = clock + 1
    /\ UNCHANGED <<persisted, rehydrated, started, last, boots>>

\* parseLhubWeb / parseLhubNative resolves or rejects
Parsed(o) ==
    /\ ops[o].pc = "parsing"
    /\ LET r == parseZipBuffer(ops[o].arch)
       IN  ParseFailed(o, r) \/ ParseSucceeded(o, r)
    /\ RegOnly

\* doRemove of handleUninstall: uninstallExtension(id), which runs up to its
\* await storageLoad(), is not awaited; showToast('"..." removed.') follows
UninstallExtension(o, id) ==
    /\ started < MaxOps /\ Takes(o)
    /\ extensions' = Remove(extensions, id)
    /\ ops' = [Begin(o, "uninstall", "loading", NoArch, id)
                  EXCEPT ![o].absent = id \notin ExtIds(extensions),
                         ![o].reported = TRUE]
    /\ started' = started + 1
    /\ UNCHANGED <<persisted, rehydrated, clock, last, boots>>
    /\ RegOnly

\* storageLoad() resolves; stored[id] = {...} or delete stored[id]; storageSave(stored)
Loaded(o, readOk) ==
    /\ ops[o].pc = "loading"
    /\ LET stored == storageLoad(readOk)
       IN  ops' = [ops EXCEPT ![o].pc = "saving", ![o].readOk = readOk,
                              ![o].stored = IF ops[o].kind = "uninstall"
                                            THEN MapDelete(stored, ops[o].id)
                                            ELSE MapSet(stored, ops[o].rec)]
    /\ UNCHANGED <<extensions, persisted, rehydrated, started, clock, last, boots>>
    /\ RegOnly

\* AsyncStorage.setItem settles: the write has landed, or it failed and is logged
SaveSettled(o, writeOk) ==
    /\ ops[o].pc = "saving"
    /\ persisted' = storageSave(ops[o].stored, writeOk)
    /\ ops' = [ops EXCEPT ![o].pc = "saved", ![o].saveOk = writeOk, ![o].stored = <<>>,
                           ![o].readOk = FALSE]
    /\ UNCHANGED <<extensions, rehydrated, started, clock, last, boots>>
    /\ RegOnly

\* a continuation that reports the outcome of the write
ReturnedWriteOutcome(o) ==
    /\ ops[o].pc = "saved"
    /\ ops' = [ops EXCEPT ![o] = IdleOp]
    /\ last' = Settled(ops[o], ops[o].saveOk, IF ops[o].saveOk THEN "" ELSE "write failed")
    /\ UNCHANGED <<extensions, persisted, rehydrated, started, clock, boots>>
    /\ RegOnly

\* the call's continuation after await storageSave: return { ok: true }
Returned(o) ==
    /\ ops[o].pc = "saved"
    /\ ops' = [ops EXCEPT ![o] = IdleOp]
    /\ last' = Settled(ops[o], TRUE, "")
    /\ UNCHANGED <<extensions, persisted, rehydrated, started, clock, boots>>
    /\ RegOnly

\* a startup effect that writes back the records that loaded
RehydratePrunes(readOk) ==
    /\ rehydrated = "pending"
    /\ rehydrated' = IF readOk THEN "loaded" ELSE "failed"
    /\ LET list == RehydrateLoop(storageLoad(readOk))
       IN  /\ extensions' = IF list # <<>> THEN list ELSE extensions
           /\ persisted' = SelectSeq(persisted, LAMBDA r : r.id \in ExtIds(list))
    /\ UNCHANGED <<ops, started, clock, last, boots>>
    /\ RegOnly

\* the startup effect: storageLoad().then(stored => { ... setExtensions(rehydrated) })
Rehydrate(readOk) ==
    /\ rehydrated = "pending"
    /\ rehydrated' = IF readOk THEN "loaded" ELSE "failed"
    /\ LET list == RehydrateLoop(storageLoad(readOk))
       IN  extensions' = IF list # <<>> THEN list ELSE extensions
    /\ UNCHANGED <<persisted, ops, started, clock, last, boots>>
    /\ RegOnly

\* the process is killed and started again: memory is lost, the store is kept
Restart ==
    /\ boots < MaxRestarts
    /\ boots' = boots + 1
    /\ extensions' = <<>>
    /\ ops' = [o \in Slots |-> IdleOp]
    /\ rehydrated' = "pending"
    /\ UNCHANGED <<persisted, started, clock, last>>
    /\ RegOnly

---------------------------------------------------------------------------
(* Initial states of the parts *)

RegInit ==
    /\ extensions = <<>>
    /\ persisted \in InitialStores
    /\ rehydrated = "pending"
    /\ ops = [o \in Slots |-> IdleOp]
    /\ started = 0
    /\ clock = 1
    /\ last = NoCall
    /\ boots = 0

\* interface StackEntry { screenName; params }
StackEntry(screenName, params) == [screenName |-> screenName, params |-> params]

\* the root entry: { screenName: '__root__', params: {} }
Root == StackEntry("__root__", "{}")

\* the burst before the current one was not a lone push
NoBefore == [pushed |-> FALSE, stack |-> <<>>, entry |-> Root]

\* getParams() not called
NotGot == [called |-> FALSE, value |-> "{}", top |-> "{}", fresh |-> FALSE]

\* useState<StackEntry[]>([{ screenName: '__root__', params: {} }])
NavInit ==
    /\ stack = <<Root>>
    /\ pending = <<>>
    /\ navlog = <<>>
    /\ base = <<Root>>
    /\ renderedKey = "a__home"
    /\ owners = [stack |-> <<"">>, pending |-> <<>>]
    /\ handle = <<Root>>
    /\ got = NotGot
    /\ before = NoBefore
    /\ settling = FALSE
    /\ cut = FALSE

\* the options objects an extension passes to videoPlayer.open; each has onClose and onEnd
VideoOptions == {"A", "B"}

\* the state of a LhubVideoPlayer as its useState calls start it: error '',
\* resolvedUri null, isPlaying false, duration, position and buffered 0,
\* isBuffering true, isEnded false.  command is the last call made on
\* videoRef.current, late tells what came while error was set: a loaded
\* status, a control call.
InitialPlayer(mounted, options, replaced, locked) ==
    [mounted |-> mounted, options |-> options, replaced |-> replaced, locked |-> locked,
     error |-> "", resolvedUri |-> "null", isPlaying |-> FALSE, duration |-> 0,
     position |-> 0, buffered |-> 0, isBuffering |-> TRUE, isEnded |-> FALSE,
     command |-> "none", late |-> {}]

\* no LhubVideoPlayer is mounted
NoPlayer == InitialPlayer(FALSE, "null", 0, FALSE)

\* the device as the app finds it; hasSO / hasNB: require('expo-screen-orientation') /
\* require('expo-navigation-bar') does not throw
Device(hasSO, hasNB) ==
    [orientation |-> "unlocked", navBar |-> "visible", navBehavior |-> "default",
     statusBarHidden |-> FALSE, hasSO |-> hasSO, hasNB |-> hasNB]

VideoCounts ==
    [opens |-> 0, closes |-> 0, onClose |-> 0, acquired |-> 0, released |-> 0,
     ended |-> 0, cleared |-> 0, late |-> 0]

\* useState<VideoPlayerOptions | null>(null); nothing rendered
VideoStart(d) ==
    /\ videoOptions = "null"
    /\ player = NoPlayer
    /\ device = d
    /\ timers = {}
    /\ vcount = VideoCounts
    /\ resolving = {}

VideoInit == VideoStart(Device(TRUE, TRUE))

\* the media actions of navigator.mediaSession and the handler each one takes
MediaActions == {"play", "pause", "nexttrack", "previoustrack", "seekto"}

HandlerOf(a) ==
    CASE a = "play"          -> "onPlay"
      [] a = "pause"         -> "onPause"
      [] a = "nexttrack"     -> "onNext"
      [] a = "previoustrack" -> "onPrev"
      [] OTHER               -> "onSeek"

\* interface MusicNotificationHandlers, "none" for an absent handler
Handlers(onPlay, onPause, onNext) ==
    [onPlay |-> onPlay, onPause |-> onPause, onNext |-> onNext,
     onPrev |-> "none", onSeek |-> "none"]

NoHandlers == Handlers("none", "none", "none")

\* the arguments of setHandlers
HandlerSets ==
    {NoHandlers, Handlers("f1", "none", "none"), Handlers("none", "f2", "none"),
     Handlers("f3", "f2", "f4")}

\* the arguments of update
Infos == {"i1", "i2"}

NoSession == [metadata |-> "null", handlers |-> [a \in MediaActions |-> "none"]]

NoEvent == [event |-> "none", handler |-> "none"]

\* useState(null), useRef({}); nothing set on the platform
MusicInit ==
    /\ notifInfo = "null"
    /\ rendered = "null"
    /\ handlersRef = NoHandlers
    /\ mediaSession = NoSession
    /\ invoked = NoEvent
    /\ prevHandlers = NoHandlers

---------------------------------------------------------------------------
(* The registry and its store *)

Platforms == {"web", "native"}

\* evalMainJs not called
NotRun == [ok |-> FALSE, error |-> "not run", value |-> "none"]

EvalInit == evalSrc = NoExportSrc /\ evalRes = NotRun

\* a JavaScript number: a finite value, NaN, Infinity or -Infinity
JsNum(v) == [kind |-> "num", v |-> v]
NaN == [kind |-> "nan", v |-> 0]
Infinity == [kind |-> "inf", v |-> 0]
NegInfinity == [kind |-> "ninf", v |-> 0]

\* skip not called
NotSkipped == [called |-> FALSE, t |-> NaN]

SkipInit ==
    /\ skipArgs = [duration |-> 0, position |-> 0, s |-> JsNum(0)]
    /\ skipTarget = NotSkipped

NoApi == [built |-> FALSE, slot |-> "null"]

NotCalled == [n |-> 0, method |-> "", slot |-> "null", bridge |-> "null"]

\* let _globalMediaPlayerRef = null; no table built, no call made
BridgeInit ==
    /\ globalMediaPlayerRef = "null"
    /\ api = NoApi
    /\ called = NotCalled

\* `${ext.manifest.id}__${tab.id}`; '' when no tab is active
Key(id, tab) == [ext |-> id, tab |-> tab]
NoKey == Key("", "")

\* useState(''), useState(''); no extension installed
TabLayoutInit == tabLayout = [extensions |-> <<>>, activeKey |-> NoKey, renderedKey |-> NoKey]

NotAsked == [called |-> FALSE, value |-> FALSE, live |-> FALSE]

\* the slot is empty (isOpen() gives false) and isOpen() has not been called
OpenInit ==
    /\ slotIsOpen = FALSE
    /\ isOpenResult = NotAsked

\* the page has no JSZip and no install has asked for it
ZipInit ==
    /\ windowJSZip = FALSE
    /\ zipCalls = <<>>

Init ==
    /\ platform \in Platforms
    /\ RegInit /\ NavInit /\ VideoInit /\ MusicInit /\ EvalInit /\ SkipInit /\ BridgeInit /\ ZipInit /\ OpenInit /\ TabLayoutInit

RegNext ==
    \/ \E o \in Slots, ar \in Archives : InstallFromFile(o, ar)
    \/ \E o \in Slots : InstallFromNative(o)
    \/ \E o \in Slots : PickerCancelled(o)
    \/ \E o \in Slots, ar \in Assets : PickerPicked(o, ar)
    \/ \E o \in Slots : Parsed(o)
    \/ \E o \in Slots, id \in UninstallIds : UninstallExtension(o, id)
    \/ \E o \in Slots, readOk \in BOOLEAN : Loaded(o, readOk)
    \/ \E o \in Slots, writeOk \in BOOLEAN : SaveSettled(o, writeOk)
    \/ \E o \in Slots : Returned(o)
    \/ \E readOk \in BOOLEAN : Rehydrate(readOk)
    \/ Restart

Next == RegNext

Spec == Init /\ [][Next]_vars

\* the registry on the web with a storage that never fails, started on an
\* empty store: what is left to go wrong is the interleaving of the calls
RaceInit == Init /\ platform = "web" /\ persisted = <<>>

RaceNext ==
    \/ \E o \in Slots, ar \in Archives : InstallFromFile(o, ar)
    \/ \E o \in Slots : Parsed(o)
    \/ \E o \in Slots, id \in UninstallIds : UninstallExtension(o, id)
    \/ \E o \in Slots : Loaded(o, TRUE)
    \/ \E o \in Slots : SaveSettled(o, TRUE)
    \/ \E o \in Slots : Returned(o)
    \/ Rehydrate(TRUE)

RaceSpec == RaceInit /\ [][RaceNext]_vars

\* no call is in flight and the startup load is over
Quiet == rehydrated # "pending" /\ \A o \in Slots : Free(o)

\* installFromFile(file), called when nothing is in flight
SeqInstall(ar) ==
    /\ Quiet
    /\ started < MaxSeq
    /\ ops' = Begin(1, "installFile", "parsing", ar, "")
    /\ started' = started + 1
    /\ UNCHANGED <<extensions, persisted, rehydrated, clock, last, boots>>
    /\ RegOnly

\* uninstallExtension(id), called when nothing is in flight
SeqUninstall(id) ==
    /\ Quiet
    /\ started < MaxSeq
    /\ extensions' = Remove(extensions, id)
    /\ ops' = [Begin(1, "uninstall", "loading", NoArch, id)
                  EXCEPT ![1].absent = id \notin ExtIds(extensions),
                         ![1].reported = TRUE]
    /\ started' = started + 1
    /\ UNCHANGED <<persisted, rehydrated, clock, last, boots>>
    /\ RegOnly

\* calls made one after the other on the web, on a store that starts empty
\* and neither fails to read nor to write
SeqNext ==
    \/ Rehydrate(TRUE)
    \/ \E ar \in Archives : SeqInstall(ar)
    \/ \E id \in UninstallIds : SeqUninstall(id)
    \/ Parsed(1)
    \/ Loaded(1, TRUE)
    \/ SaveSettled(1, TRUE)
    \/ Returned(1)

SeqSpec == RaceInit /\ [][SeqNext]_vars


---------------------------------------------------------------------------
(* Claims about the registry *)

NoDupIds(exts) ==
    \A i, j \in 1..Len(exts) : i # j => exts[i].id # exts[j].id

ExtOf(exts, id) == CHOOSE e \in Range(exts) : e.id = id

\* the step on which call o's parse resolves and its upsert is applied
Upserts(o) == ops[o].pc = "parsing" /\ ops'[o].pc = "loading"

\* the step on which call o returns { ok: true } (install) or returns (uninstall)
Returns(o) == ops[o].pc = "saved" /\ ops'[o].pc = "idle" /\ boots' = boots

UpsertInOneStep(o) ==
    LET id == ops'[o].id IN
    /\ Len(extensions') <= Len(extensions) + 1
    /\ id \in ExtIds(extensions')
    /\ ExtOf(extensions', id).manifest = Manifest(ops[o].arch.mainJs)
    /\ id \in ExtIds(extensions) => Len(extensions') = Len(extensions)

StoreHolds(o) ==
    /\ ops[o].id \in Keys(persisted')
    /\ MapGet(persisted', ops[o].id) = ops[o].rec

FailsToParse(ar) == ~ar.zipOk \/ ~ar.hasMain \/ ~evalMainJs(ar.mainJs).ok

FailureMessage(ar) ==
    IF ~ar.zipOk THEN "Not a valid zip/lhub file"
    ELSE IF ~ar.hasMain THEN "main.js not found"
    ELSE evalMainJs(ar.mainJs).error

\* C2: an install whose archive does not parse, has no main.js, or whose source
\* does not evaluate or validate settles with {ok: false, error: <the failure's
\* message>}; the step changes neither the collection nor the store, and the
\* call is over, so it never writes.
C2_FailedInstall ==
    [][ \A o \in Slots :
          (/\ ops[o].pc = "parsing" /\ FailsToParse(ops[o].arch)
           /\ ops'[o].pc # "parsing" /\ boots' = boots)
              => /\ ops'[o] = IdleOp
                 /\ IsInstall(last'.kind) /\ ~last'.ok
                 /\ last'.error = FailureMessage(ops[o].arch)
                 /\ last'.error # ""
                 /\ extensions' = extensions
                 /\ persisted' = persisted ]_vars

\* An install failed on manifest validation while two extensions were installed.
C2_Witness ==
    /\ IsInstall(last.kind) /\ ~last.ok /\ last.error = "Tab missing label"
    /\ Len(extensions) = 2
    /\ \A o \in Slots : Free(o)

GoodRecords(map) == {r \in Range(map) : evalMainJs(r.mainJs).ok}

\* positions of the records of map that load, in the order of the map
IsOrderedBy(exts, map) ==
    \A i, j \in 1..Len(exts) :
        i < j => \E k, l \in 1..Len(map) :
                    k < l /\ map[k].id = exts[i].id /\ map[l].id = exts[j].id

\* C3: when the startup load has read the map, the collection holds exactly one
\* entry, in the map's order and with the record's icon and timestamp, for each
\* record whose source evaluates and validates, and none for the others: a
\* record that fails does not stop the records after it.  (When no record loads
\* the collection is left as it is.)
C3_Rehydration ==
    [][ (rehydrated = "pending" /\ rehydrated' = "loaded")
          => LET good == GoodRecords(persisted) IN
             IF good = {} THEN extensions' = extensions
             ELSE /\ Len(extensions') = Cardinality(good)
                  /\ NoDupIds(extensions')
                  /\ IsOrderedBy(extensions', persisted)
                  /\ \A r \in good :
                        /\ r.id \in ExtIds(extensions')
                        /\ ExtOf(extensions', r.id) =
                             InstalledExtension(Manifest(r.mainJs), r.iconUri,
                                                r.installedAt) ]_vars

\* Three records, the second corrupted: the first and the third are loaded.
C3_Witness ==
    /\ rehydrated = "loaded" /\ started = 0
    /\ Len(persisted) = 3 /\ ~evalMainJs(persisted[2].mainJs).ok
    /\ Len(extensions) = 2
    /\ extensions[1].id = persisted[1].id /\ extensions[2].id = persisted[3].id

\* the install that settled last was of id, succeeded, and nothing overlapped it
InstalledBefore(id) == IsInstall(last.kind) /\ last.ok /\ last.solo /\ last.id = id

Absent(id, exts, map) == id \notin ExtIds(exts) /\ id \notin Keys(map)

\* C4 as stated: when uninstall(X.id) returns after install(X) has completed,
\* nothing overlapping either, X.id is in neither the collection nor the store.
C4_AsStated ==
    [][ \A o \in Slots :
          (Returns(o) /\ ops[o].kind = "uninstall" /\ ops[o].solo
                /\ InstalledBefore(ops[o].id))
              => Absent(ops[o].id, extensions', persisted') ]_vars

\* C4, amended: the same, provided the uninstall's write to the store succeeded.
C4_RoundTrip ==
    [][ \A o \in Slots :
          (Returns(o) /\ ops[o].kind = "uninstall" /\ ops[o].solo /\ ops[o].saveOk
                /\ InstalledBefore(ops[o].id))
              => Absent(ops[o].id, extensions', persisted') ]_vars

\* install(a) has completed, then uninstall(a) has written the store and is
\* about to return: a is gone from both.
C4_Witness ==
    \E o \in Slots :
        /\ ops[o].kind = "uninstall" /\ ops[o].pc = "saved"
        /\ ops[o].solo /\ ops[o].saveOk /\ ops[o].id = "a"
        /\ InstalledBefore("a")
        /\ Absent("a", extensions, persisted)
        /\ persisted # <<>>

\* call o is uninstallExtension(id) for an id that is not in the collection
CallsAbsent(o) == Free(o) /\ ops'[o].kind = "uninstall" /\ ops'[o].absent

\* the write of such a call settles
AbsentWriteSettles(o) ==
    /\ ops[o].kind = "uninstall" /\ ops[o].absent
    /\ ops[o].pc = "saving" /\ ops'[o].pc = "saved"

\* such a call returns
AbsentReturns(o) ==
    /\ ops[o].kind = "uninstall" /\ ops[o].absent
    /\ ops[o].pc = "saved" /\ Free(o)' /\ boots' = boots

AllCompleted == started > 0 /\ rehydrated # "pending" /\ \A o \in Slots : Free(o)

\* C25: for install and uninstall operations that overlap, once all of them
\* have completed the set of persisted keys equals the set of manifest ids in
\* the in-memory collection: no completed install's record is missing from
\* the store, and no uninstalled id is still persisted.
C25_AsStated == AllCompleted => Keys(persisted) = ExtIds(extensions)

\* C26: rehydration settles before the registry is used: the result of the
\* startup rehydration is never applied to the in-memory collection after an
\* install or uninstall has already changed it, so an extension whose
\* install completed is never dropped from the collection by rehydration.
C26_AsStated ==
    [][(rehydrated = "pending" /\ rehydrated' # "pending")
          => \A i \in 1..Len(extensions) :
                \E j \in 1..Len(extensions') : extensions'[j] = extensions[i]]_vars

\* C27: installing or uninstalling extension X never removes or changes the
\* persisted record of a different extension Y, including when the storage
\* read made during the operation fails (no other call overlapping it).
C27_AsStated ==
    [][\A o \in Slots :
         (ops[o].pc = "saving" /\ ops'[o].pc = "saved" /\ ops[o].solo)
            => \A i \in 1..Len(persisted) :
                  persisted[i].id # ops[o].id
                     => \E j \in 1..Len(persisted') : persisted'[j] = persisted[i]]_vars

\* C33: for install and uninstall calls that do not overlap, on a store that
\* starts empty and with reads and writes succeeding, after each call the
\* set of persisted keys equals the set of manifest ids of the in-memory
\* collection, and every persisted record is stored under the id of the
\* manifest that its source produces.
C33_StoreMatches ==
    (Quiet /\ started > 0) =>
        /\ Keys(persisted) = ExtIds(extensions)
        /\ \A i \in 1..Len(persisted) :
              /\ evalMainJs(persisted[i].mainJs).ok
              /\ persisted[i].id = Manifest(persisted[i].mainJs).id

\* four calls made one after the other, the last an uninstall of b: a, whose
\* entry comes from an install that was not the first call, is alone in the
\* collection and in the store
C33_Witness ==
    /\ Quiet /\ started = MaxSeq
    /\ last.kind = "uninstall" /\ last.id = "b"
    /\ Keys(persisted) = {"a"}
    /\ ExtIds(extensions) = {"a"}
    /\ extensions[1].installedAt > 0

\* C38: startup rehydration never writes to the persistence store: the
\* persisted map is the same before and after it, so a record that failed to
\* load stays persisted and is attempted again at the next start.
C38_RehydrationReadOnly ==
    [][(rehydrated = "pending" /\ rehydrated' # "pending") => persisted' = persisted]_vars

\* the process was started a second time and has rehydrated, no call was
\* ever made, and the store still holds a record that does not load
C38_Witness ==
    /\ boots = 1 /\ rehydrated = "loaded" /\ started = 0
    /\ extensions # <<>>
    /\ \E i \in 1..Len(persisted) : ~evalMainJs(persisted[i].mainJs).ok

\* C32: a failed durable write during install or uninstall is only logged:
\* the step on which the write fails changes neither the store nor the
\* in-memory collection (the attempted change is not rolled back), and the
\* call then completes as one whose write landed: an install resolves
\* {ok: true}.
C32_WriteFailure ==
    [][\A o \in Slots :
          /\ (ops[o].pc = "saving" /\ ops'[o].pc = "saved" /\ ~ops'[o].saveOk)
                => (extensions' = extensions /\ persisted' = persisted)
          /\ (ops[o].pc = "saved" /\ ~ops[o].saveOk /\ ops'[o].pc = "idle"
                /\ boots' = boots)
                => (last'.ok /\ last'.error = "" /\ last'.id = ops[o].id
                    /\ extensions' = extensions /\ persisted' = persisted)]_vars

\* an install whose write failed has resolved {ok: true}: its extension is in
\* the collection and not in the store
C32_Witness ==
    /\ last.kind = "installFile" /\ last.ok /\ ~last.saveOk /\ last.solo
    /\ last.id \in ExtIds(extensions)
    /\ last.id \notin Keys(persisted)

\* C24: install and uninstall are write-through: the in-memory collection is
\* updated first, and the operation is reported complete to its caller
\* (install resolves {ok: true}; uninstall returns and the caller reports the
\* removal) only after the durable write for it has finished.
C24_AsStated ==
    [][\A o \in Slots :
         /\ (ops'[o].reported /\ ops'[o].kind = "uninstall")
               => /\ ops'[o].id \notin ExtIds(extensions')
                  /\ ops'[o].pc = "saved"
         /\ (Returns(o) /\ IsInstall(ops[o].kind))
               => /\ last'.ok /\ ops[o].pc = "saved"
                  /\ ops[o].id \in ExtIds(extensions) \/ ~ops[o].solo]_vars

\* the latest call to settle was an install that returned ok after its write
\* landed, nothing was called since, and the process has restarted and run
\* its startup load
InstalledThenRestarted ==
    /\ IsInstall(last.kind) /\ last.ok /\ last.saveOk
    /\ last.n = started
    /\ last.boot < boots
    /\ rehydrated # "pending"

PresentAsPersisted ==
    \E i \in 1..Len(extensions) :
        /\ extensions[i].id = last.id
        /\ extensions[i].iconUri = last.iconUri
        /\ extensions[i].installedAt = last.installedAt

---------------------------------------------------------------------------
(* The navigation stack of one ExtensionNavigator                          *)
(*                                                                         *)
(* A navigation call starts the fade-out, whose callback (the midpoint)    *)
(* runs the state update.  The callback of a fade-out runs when it ends or *)
(* when the next one replaces it, so the callbacks run once each, in the   *)
(* order of the calls, at any time after the call.                         *)

ScreenNames == {"detail", "doesNotExist", "__root__"}
ParamArgs == {"undefined", "p1"}

NavCall(kind, entry) == [kind |-> kind, entry |-> entry]

\* setStack(prev => [...prev, { screenName, params: params ?? {} }]), wrongly prepending
PushEntryFront(prev, entry) == <<entry>> \o prev

\* setStack(prev => [...prev, { screenName, params: params ?? {} }])
PushEntry(prev, entry) == Append(prev, entry)

\* setStack(prev => prev.slice(0, -1))
PopEntry(prev) == SubSeq(prev, 1, Len(prev) - 1)

\* the state update a midpoint callback runs
Apply(call, prev) ==
    CASE call.kind = "push" -> PushEntry(prev, call.entry)
      [] call.kind = "pop"  -> PopEntry(prev)
      [] OTHER              -> <<Root>>

\* which tab pushed each entry: the bookkeeping that follows a state update
OwnersApply(call, tab, prev) ==
    CASE call.kind = "push" -> Append(prev, tab)
      [] call.kind = "pop"  -> SubSeq(prev, 1, Len(prev) - 1)
      [] OTHER              -> <<"">>

\* rendering reads stack[stack.length - 1].screenName: an empty stack throws
Mounted == stack # <<>>

PushesPending == Cardinality({i \in 1..Len(pending) : pending[i].kind = "push"})

\* bookkeeping: the calls made while a transition was in flight form a burst
Note(call) ==
    IF pending = <<>>
    THEN /\ base' = stack /\ navlog' = <<call>>
         /\ before' = IF Len(navlog) = 1 /\ navlog[1].kind = "push"
                       THEN [pushed |-> TRUE, stack |-> base, entry |-> navlog[1].entry]
                       ELSE NoBefore
    ELSE base' = base /\ navlog' = Append(navlog, call) /\ UNCHANGED before

CanCall ==
    /\ Mounted
    /\ Len(pending) < MaxPending
    /\ pending # <<>> => Len(navlog) < MaxBurst

NavOnly == UNCHANGED <<platform, regVars, videoVars, musicVars, evalVars, skipVars,
               bridgeVars, zipVars, openVars, tabLayout>>

\* animateTransition assigns opacity.value = withTiming(0, ...): a fade-out
\* that is running is replaced; the oldest call's may have just ended,
\* with its callback yet to run
Replaces ==
    IF pending = <<>> \/ cut THEN cut' = cut ELSE cut' \in BOOLEAN

\* navigation.push(screenName, params)
Push(screenName, params) ==
    /\ CanCall
    /\ Len(stack) + PushesPending < MaxStack
    /\ LET call == NavCall("push", StackEntry(screenName,
                                IF params = "undefined" THEN "{}" ELSE params))
       IN  pending' = Append(pending, call) /\ Note(call)
    /\ owners' = [owners EXCEPT !.pending = Append(@, renderedKey)]
    /\ Replaces
    /\ UNCHANGED <<stack, renderedKey, handle, got, settling>>
    /\ NavOnly

\* navigation.pop(): the guard reads the stack of the render that made the object
Pop ==
    /\ CanCall
    /\ IF Len(stack) <= 1
       THEN UNCHANGED <<pending, owners, cut>>
       ELSE /\ pending' = Append(pending, NavCall("pop", Root))
            /\ owners' = [owners EXCEPT !.pending = Append(@, renderedKey)]
            /\ Replaces
    /\ Note(NavCall("pop", Root))
    /\ UNCHANGED <<stack, renderedKey, handle, got, settling>>
    /\ NavOnly

\* navigation.popToRoot()
PopToRoot ==
    /\ CanCall
    /\ pending' = Append(pending, NavCall("popToRoot", Root))
    /\ Replaces
    /\ Note(NavCall("popToRoot", Root))
    /\ owners' = [owners EXCEPT !.pending = Append(@, renderedKey)]
    /\ UNCHANGED <<stack, renderedKey, handle, got, settling>>
    /\ NavOnly

\* the withTiming callback: runOnJS(onMid)(), then the fade-in over 180 ms
\* and the spring of translateX are started; the fade-in replaces the
\* fade-out of the calls still in flight
Midpoint ==
    /\ Mounted
    /\ pending # <<>>
    /\ stack' = Apply(Head(pending), stack)
    /\ pending' = Tail(pending)
    /\ owners' = [stack |-> OwnersApply(Head(pending), Head(owners.pending), owners.stack),
                  pending |-> Tail(owners.pending)]
    /\ settling' = TRUE
    /\ cut' = (Len(pending) > 1)
    /\ UNCHANGED <<navlog, base, renderedKey, handle, got, before>>
    /\ NavOnly

\* the fade-in and the spring the latest callback started have come to rest
TransitionSettled ==
    /\ settling
    /\ settling' = FALSE
    /\ UNCHANGED <<stack, pending, navlog, base, renderedKey, owners, handle, got, before, cut>>
    /\ NavOnly

\* the tab keys of the installed extensions: `${ext.manifest.id}__${tab.id}`
TabKeys == {"a__home", "b__home"}

\* handleSelectTab(key), after the drawer has closed: setActiveKey(key);
\* setRenderedKey(key).  renderScreen returns <ExtensionNavigator tab=... /> with
\* no key, so the mounted navigator and its state are kept and get the new tab.
SelectTab(key) ==
    /\ Mounted
    /\ key # renderedKey
    /\ renderedKey' = key
    /\ UNCHANGED <<stack, pending, navlog, base, owners, handle, got, before, settling, cut>>
    /\ NavOnly

\* const current = stack[stack.length - 1]
Current(stk) == stk[Len(stk)]

\* tab.screens of the tab with the given key: the first extension's tab maps
\* 'detail', the second's has no screens
Screens(key) == IF key = "a__home" THEN {"detail"} ELSE {}

\* a resolution that falls back to the tab's component
ScreenComponentRoot(stk, key) ==
    IF Current(stk).screenName \in Screens(key)
    THEN Current(stk).screenName
    ELSE "tab.component"

\* the component the navigator renders: tab.component for '__root__',
\* tab.screens[name] when the tab maps it, else none, shown as the
\* 'Screen "..." not found.' placeholder
ScreenComponent(stk, key) ==
    IF Current(stk).screenName = "__root__" THEN "tab.component"
    ELSE IF Current(stk).screenName \in Screens(key) THEN Current(stk).screenName
    ELSE "notFound"

\* a getParams that answers with the root's params
getParamsRoot(stk) == stk[1].params

\* getParams: () => current.params, current being the one of the render that
\* made the navigation object
getParams(stk) == Current(stk).params

\* the extension keeps the navigation object of the current render
KeepHandle ==
    /\ Mounted
    /\ handle # stack
    /\ handle' = stack
    /\ UNCHANGED <<stack, pending, navlog, base, renderedKey, owners, got, before, settling, cut>>
    /\ NavOnly

\* the extension calls pop() on the navigation object it holds, made by an
\* earlier render: if (stack.length <= 1) return reads that render's stack
PopHeld ==
    /\ CanCall
    /\ handle # stack
    /\ IF Len(handle) <= 1
       THEN UNCHANGED <<pending, owners, cut>>
       ELSE /\ pending' = Append(pending, NavCall("pop", Root))
            /\ owners' = [owners EXCEPT !.pending = Append(@, renderedKey)]
            /\ Replaces
    /\ Note(NavCall("pop", Root))
    /\ UNCHANGED <<stack, renderedKey, handle, got, settling>>
    /\ NavOnly

\* the extension calls getParams() on the navigation object it holds
GetParams ==
    /\ Mounted
    /\ got' = [called |-> TRUE, value |-> getParams(handle),
               top |-> Current(stack).params, fresh |-> handle = stack]
    /\ UNCHANGED <<stack, pending, navlog, base, renderedKey, owners, handle, before, settling, cut>>
    /\ NavOnly

NavSpecInit == Init /\ platform = "native" /\ persisted = <<>>

NavNext ==
    \/ \E s \in ScreenNames, p \in ParamArgs : Push(s, p)
    \/ Pop
    \/ PopToRoot
    \/ Midpoint

NavSpec == NavSpecInit /\ [][NavNext]_vars

\* the navigator under tab selection
TabNext ==
    \/ \E s \in ScreenNames, p \in ParamArgs : Push(s, p)
    \/ Pop
    \/ PopToRoot
    \/ Midpoint
    \/ \E k \in TabKeys : SelectTab(k)

TabSpec == NavSpecInit /\ [][TabNext]_vars

\* the navigator and a navigation object held by the extension
HandleNext ==
    \/ \E p \in ParamArgs : Push("detail", p)
    \/ Pop
    \/ PopToRoot
    \/ Midpoint
    \/ KeepHandle
    \/ GetParams
    \/ PopHeld

HandleSpec == NavSpecInit /\ [][HandleNext]_vars

\* the navigator and the animations of its transitions
TransitionNext ==
    \/ \E p \in ParamArgs : Push("detail", p)
    \/ Pop
    \/ PopToRoot
    \/ Midpoint
    \/ TransitionSettled

TransitionSpec == NavSpecInit /\ [][TransitionNext]_vars

\* C29 (as stated): navigation calls that arrive while a transition is in
\* flight are queued: the midpoint callback of a call fires only after the
\* transition of the call before it has completed, never while its fade-in
\* and spring are still running.
C29_AsStated == [][Len(pending') < Len(pending) => ~settling]_vars

\* C35 (as stated): each push, pop on a stack longer than 1 and popToRoot
\* mutates the stack once, at its transition's midpoint: when the midpoint
\* callback of a call runs, the call's outgoing fade has finished, and the
\* incoming animation starts only then.
C35_AsStated == [][Len(pending') < Len(pending) => (~cut /\ settling')]_vars

\* C31 (as stated): the root entry is the only stack entry with the reserved
\* screen name '__root__': the bottom entry always has it, and no entry added
\* by push has it, whatever screen name was passed to push.
C31_AsStated ==
    /\ stack[1].screenName = "__root__"
    /\ \A i \in 2..Len(stack) : stack[i].screenName # "__root__"

---------------------------------------------------------------------------
(* Claims about the navigation stack *)

\* C5: the navigation stack has length >= 1 in every reachable state, for
\* every sequence and timing of push, pop and popToRoot calls.
C5_StackNonEmpty == Len(stack) >= 1

OnlyPushes(calls) == \A i \in 1..Len(calls) : calls[i].kind = "push"

Entries(calls) == [i \in 1..Len(calls) |-> calls[i].entry]

\* C14: each tab has its own navigation stack: the entries of the stack that
\* is shown, the root apart, were pushed in the tab that is shown, never in a
\* tab shown before.
C14_OwnStack == \A i \in 2..Len(stack) : owners.stack[i] = renderedKey

Lone(kind) == pending = <<>> /\ Len(navlog) = 1 /\ navlog[1].kind = kind

\* C16: for any stack S, push(name, params) followed by pop(), each made
\* after the previous call's midpoint has run, yields exactly S again: the
\* same entries in the same order with the same params.
C16_PushPop == (Lone("pop") /\ before.pushed) => stack = before.stack

Unknown(entry) ==
    entry.screenName # "__root__" /\ entry.screenName \notin Screens(renderedKey)

C17_PopAndRoot ==
    /\ Lone("pop") =>
          stack = IF Len(base) <= 1 THEN base ELSE SubSeq(base, 1, Len(base) - 1)
    /\ Lone("popToRoot") =>
          stack = <<[screenName |-> "__root__", params |-> "{}"]>>

\* C6: when push calls are made in some order, each with any timing relative
\* to the transitions in flight, then once every midpoint callback has run
\* the stack is the prior stack followed by exactly the pushed entries, in
\* call order.
C6_PushOrder ==
    (pending = <<>> /\ navlog # <<>> /\ OnlyPushes(navlog))
        => stack = base \o Entries(navlog)

\* two different pushes, the second made while the first was in flight, done
C6_Witness ==
    /\ pending = <<>>
    /\ Len(navlog) = 2
    /\ OnlyPushes(navlog)
    /\ navlog[1].entry # navlog[2].entry
    /\ stack = <<Root, navlog[1].entry, navlog[2].entry>>

---------------------------------------------------------------------------
(* The video session: MediaPlayerProvider's videoOptions and the           *)
(* LhubVideoPlayer it renders                                              *)
(*                                                                         *)
(* A call sets the provider's state; the render that follows mounts,       *)
(* re-renders or unmounts the one LhubVideoPlayer element (it has no key,  *)
(* so a change of options re-renders the mounted instance).  Calls made in *)
(* the same tick are followed by one render.                               *)

TimerIds == {"t1", "t2"}

\* SO.lockAsync(lock), when the module is there
Lock(d, lock) == IF d.hasSO THEN [d EXCEPT !.orientation = lock] ELSE d

\* enterImmersive: navigation bar hidden and immersive-sticky, status bar hidden
enterImmersive(d) ==
    LET nb == IF d.hasNB
              THEN [d EXCEPT !.navBar = "hidden", !.navBehavior = "immersive-sticky"]
              ELSE d
    IN  [nb EXCEPT !.statusBarHidden = TRUE]

\* a cleanup that leaves the timers running
KeepTimers(ts) == ts

\* clearTimeout(t1); clearTimeout(t2)
ClearTimers(ts) == ts \ TimerIds

\* the effect's cleanup on the device: portrait if locked, bar and status bar shown
Restore(d, locked) ==
    LET so == IF locked THEN Lock(d, "PORTRAIT_UP") ELSE d
        nb == IF so.hasNB THEN [so EXCEPT !.navBar = "visible"] ELSE so
    IN  [nb EXCEPT !.statusBarHidden = FALSE]

\* options.uri
Uri(o) == IF o = "A" THEN "uriA" ELSE "uriB"

\* the status objects the engine passes to onPlaybackStatusUpdate
Status(isLoaded, error, isPlaying, position, playable, isBuffering, didJustFinish) ==
    [isLoaded |-> isLoaded, error |-> error, isPlaying |-> isPlaying,
     durationMillis |-> 2000, positionMillis |-> position,
     playableDurationMillis |-> playable,
     isBuffering |-> isBuffering, didJustFinish |-> didJustFinish]

StError    == Status(FALSE, "E", FALSE, 0, 0, FALSE, FALSE)
StUnloaded == Status(FALSE, "", FALSE, 0, 0, FALSE, FALSE)
StPlaying  == Status(TRUE, "", TRUE, 1000, 0, TRUE, FALSE)
StPaused   == Status(TRUE, "", FALSE, 1000, 2000, FALSE, FALSE)
StFinished == Status(TRUE, "", FALSE, 2000, 2000, FALSE, TRUE)

\* an onStatus whose loaded status clears the error
onStatusClears(p, st) ==
    IF ~st.isLoaded
    THEN IF st.error # "" THEN [p EXCEPT !.error = st.error] ELSE p
    ELSE [p EXCEPT !.error = "",
                   !.isPlaying = st.isPlaying,
                   !.duration = st.durationMillis \div 1000,
                   !.position = st.positionMillis \div 1000,
                   !.isBuffering = st.isBuffering,
                   !.buffered = IF st.playableDurationMillis # 0
                                THEN st.playableDurationMillis \div 1000 ELSE @,
                   !.isEnded = IF st.didJustFinish THEN TRUE ELSE @]

\* onStatus(st), the state it sets (options.loop is not set in the options
\* modelled; options.onEnd is in EngineFinished)
onStatus(p, st) ==
    IF ~st.isLoaded
    THEN IF st.error # "" THEN [p EXCEPT !.error = st.error] ELSE p
    ELSE [p EXCEPT !.isPlaying = st.isPlaying,
                   !.duration = st.durationMillis \div 1000,
                   !.position = st.positionMillis \div 1000,
                   !.isBuffering = st.isBuffering,
                   !.buffered = IF st.playableDurationMillis # 0
                                THEN st.playableDurationMillis \div 1000 ELSE @,
                   !.isEnded = IF st.didJustFinish THEN TRUE ELSE @]

\* bookkeeping: what came while error was set
Late(p, tag) == IF p.error # "" THEN p.late \cup {tag} ELSE p.late

\* what the player renders: the error text, the engine's <Video>, or the spinner
View(p) ==
    IF p.error # "" THEN "error"
    ELSE IF p.resolvedUri # "null" THEN "video"
    ELSE "spinner"

Bump(field) == vcount' = [vcount EXCEPT ![field] = @ + 1]

\* the cleanup of the [options.uri] effect left every promise as it was
CancelNone(fl) == fl

\* the cleanup of the [options.uri] effect: cancelled = true
Cancel(fl) == {[r EXCEPT !.cancelled = TRUE] : r \in fl}

\* the [options.uri] effect: let cancelled = false; resolveToLocalCache(uri)
Start(fl, u) == fl \cup {[uri |-> u, cancelled |-> FALSE]}

VideoOnly == UNCHANGED <<platform, regVars, navVars, musicVars, evalVars, skipVars,
               bridgeVars, zipVars, openVars, tabLayout>>

\* videoPlayer.open(o): setVideoOptions(o)
VideoOpen(o) ==
    /\ vcount.opens < MaxOpens
    /\ o # videoOptions
    /\ videoOptions' = o
    /\ Bump("opens")
    /\ UNCHANGED <<player, device, timers, resolving>>
    /\ VideoOnly

\* the sandbox handle's videoPlayer.close(): setVideoOptions(null)
VideoClose ==
    /\ videoOptions # "null"
    /\ videoOptions' = "null"
    /\ Bump("closes")
    /\ UNCHANGED <<player, device, timers, resolving>>
    /\ VideoOnly

\* the control handle's close(): options.onClose?.(); onClose()
HandleClose ==
    /\ player.mounted
    /\ vcount.onClose < MaxOpens
    /\ videoOptions' = "null"
    /\ vcount' = [vcount EXCEPT !.onClose = @ + 1,
                                !.closes = IF videoOptions # "null" THEN @ + 1 ELSE @]
    /\ UNCHANGED <<player, device, timers, resolving>>
    /\ VideoOnly

\* onStatus with didJustFinish: setIsEnded(true); options.onEnd?.(), which may
\* call videoPlayer.close()
EngineFinished(onEndCloses) ==
    /\ player.mounted
    /\ player.resolvedUri # "null"
    /\ ~player.isEnded
    /\ player' = [onStatus(player, StFinished) EXCEPT !.late = Late(player, "loaded")]
    /\ IF onEndCloses /\ videoOptions # "null"
       THEN videoOptions' = "null" /\ Bump("closes")
       ELSE UNCHANGED <<videoOptions, vcount>>
    /\ UNCHANGED <<device, timers, resolving>>
    /\ VideoOnly

\* render with options and no instance: mount; the [] effect locks landscape,
\* enters immersive mode and starts the two timers
Mount ==
    /\ videoOptions # "null"
    /\ ~player.mounted
    /\ player' = InitialPlayer(TRUE, videoOptions, 0, device.hasSO)
    /\ device' = enterImmersive(Lock(device, "LANDSCAPE"))
    /\ timers' = timers \cup TimerIds
    /\ Bump("acquired")
    /\ resolving' = Start(resolving, Uri(videoOptions))
    /\ UNCHANGED videoOptions
    /\ VideoOnly

\* a render with other options that unmounts the instance and mounts a new one
RerenderRemount ==
    /\ videoOptions # "null"
    /\ player.mounted
    /\ player.options # videoOptions
    /\ player' = InitialPlayer(TRUE, videoOptions, player.replaced + 1, device.hasSO)
    /\ device' = enterImmersive(Lock(Restore(device, player.locked), "LANDSCAPE"))
    /\ timers' = TimerIds
    /\ vcount' = [vcount EXCEPT !.released = @ + 1, !.acquired = @ + 1, !.ended = @ + 1]
    /\ resolving' = Start(Cancel(resolving), Uri(videoOptions))
    /\ UNCHANGED videoOptions
    /\ VideoOnly

\* render with other options and an instance: the instance gets new props
\* and keeps its state; the [] effects neither clean up nor run again, the
\* [options.uri] effect runs setResolvedUri(null) when the uri is another
Rerender ==
    /\ videoOptions # "null"
    /\ player.mounted
    /\ player.options # videoOptions
    /\ player' = [player EXCEPT !.options = videoOptions, !.replaced = @ + 1,
                                !.resolvedUri = IF Uri(videoOptions) # Uri(player.options)
                                                THEN "null" ELSE @]
    /\ Bump("ended")
    /\ resolving' = IF Uri(videoOptions) # Uri(player.options)
                    THEN Start(Cancel(resolving), Uri(videoOptions))
                    ELSE resolving
    /\ UNCHANGED <<videoOptions, device, timers>>
    /\ VideoOnly

\* render with null and an instance: unmount; the effect's cleanup runs
Unmount ==
    /\ videoOptions = "null"
    /\ player.mounted
    /\ player' = NoPlayer
    /\ timers' = ClearTimers(timers)
    /\ device' = Restore(device, player.locked)
    /\ vcount' = [vcount EXCEPT !.released = @ + 1, !.ended = @ + 1,
                                !.cleared = @ + Cardinality(timers)]
    /\ resolving' = Cancel(resolving)
    /\ UNCHANGED videoOptions
    /\ VideoOnly

\* resolveToLocalCache(options.uri) settles either way and its effect was
\* not cleaned up: if (!cancelled) setResolvedUri(...); a setter of an
\* unmounted instance changes nothing
Resolved ==
    /\ \E r \in resolving :
          /\ ~r.cancelled
          /\ resolving' = resolving \ {r}
          /\ player' = IF player.mounted
                        THEN [player EXCEPT !.resolvedUri = r.uri]
                        ELSE player
    /\ UNCHANGED <<videoOptions, device, timers, vcount>>
    /\ VideoOnly

\* resolveToLocalCache settles after the cleanup of its effect ran:
\* if (!cancelled) is false and nothing is set
LateResolved ==
    /\ \E r \in resolving :
          /\ r.cancelled
          /\ resolving' = resolving \ {r}
    /\ Bump("late")
    /\ UNCHANGED <<videoOptions, player, device, timers>>
    /\ VideoOnly

\* a call on the engine of an unmounted instance completes and its status
\* reaches onStatus: the setters of an unmounted instance change nothing
LateStatus(st) ==
    /\ ~player.mounted
    /\ vcount.ended > 0
    /\ vcount.late < MaxLate
    /\ Bump("late")
    /\ UNCHANGED <<videoOptions, player, device, timers, resolving>>
    /\ VideoOnly

\* the engine calls onPlaybackStatusUpdate with a status that does not finish
\* the video; a callback can still arrive after one that reported an error
OnStatus(st) ==
    /\ player.mounted
    /\ player.resolvedUri # "null"
    /\ player' = [onStatus(player, st) EXCEPT
                    !.late = IF st.isLoaded THEN Late(player, "loaded") ELSE @]
    /\ UNCHANGED <<videoOptions, device, timers, vcount, resolving>>
    /\ VideoOnly

ControlCalls == {"play", "pause", "togglePlay", "seek", "skip"}

\* a togglePlay that resumes whatever isEnded is
CommandResume(p, c) ==
    CASE c = "play"  -> "playAsync"
      [] c = "pause" -> "pauseAsync"
      [] c = "togglePlay" -> IF p.isPlaying THEN "pauseAsync" ELSE "playAsync"
      [] OTHER -> "setPositionAsync"

\* the call a control makes on videoRef.current
Command(p, c) ==
    CASE c = "play"  -> "playAsync"
      [] c = "pause" -> "pauseAsync"
      [] c = "togglePlay" -> IF p.isEnded THEN "replayAsync"
                             ELSE IF p.isPlaying THEN "pauseAsync" ELSE "playAsync"
      [] OTHER -> "setPositionAsync"

\* the extension calls a control of the api: the call goes to the engine when
\* its <Video> is rendered (videoRef.current is set); togglePlay on an ended
\* video also runs setIsEnded(false)
Control(c) ==
    /\ player.mounted
    /\ player' = [player EXCEPT
                    !.command = IF View(player) = "video" THEN Command(player, c) ELSE @,
                    !.isEnded = IF c = "togglePlay" THEN FALSE ELSE @,
                    !.late = Late(player, "control")]
    /\ UNCHANGED <<videoOptions, device, timers, vcount, resolving>>
    /\ VideoOnly

\* a timer runs enterImmersive
Timer(t) ==
    /\ t \in timers
    /\ timers' = timers \ {t}
    /\ device' = enterImmersive(device)
    /\ UNCHANGED <<videoOptions, player, vcount, resolving>>
    /\ VideoOnly

VideoSpecInit ==
    /\ platform = "native"
    /\ RegInit /\ persisted = <<>>
    /\ NavInit
    /\ MusicInit
    /\ EvalInit /\ SkipInit /\ BridgeInit /\ ZipInit /\ OpenInit /\ TabLayoutInit
    /\ \E hasSO, hasNB \in BOOLEAN : VideoStart(Device(hasSO, hasNB))

VideoNext ==
    \/ \E o \in VideoOptions : VideoOpen(o)
    \/ VideoClose
    \/ HandleClose
    \/ \E c \in BOOLEAN : EngineFinished(c)
    \/ Mount
    \/ Rerender
    \/ Unmount
    \/ Resolved
    \/ \E t \in TimerIds : Timer(t)

VideoSpec == VideoSpecInit /\ [][VideoNext]_vars

\* the session with its engine: status callbacks and control calls
EngineSpecInit == VideoSpecInit /\ device = Device(TRUE, TRUE)

EngineNext ==
    \/ \E o \in VideoOptions : VideoOpen(o)
    \/ VideoClose
    \/ HandleClose
    \/ \E c \in BOOLEAN : EngineFinished(c)
    \/ Mount
    \/ Rerender
    \/ Unmount
    \/ Resolved
    \/ \E st \in {StError, StUnloaded, StPlaying, StPaused} : OnStatus(st)
    \/ \E c \in ControlCalls : Control(c)

EngineSpec == EngineSpecInit /\ [][EngineNext]_vars

\* the sessions and the completions that arrive after an instance is gone
LateNext ==
    \/ \E o \in VideoOptions : VideoOpen(o)
    \/ VideoClose
    \/ Mount
    \/ Rerender
    \/ Unmount
    \/ Resolved
    \/ LateResolved
    \/ \E st \in {StError, StUnloaded, StPlaying, StPaused} : OnStatus(st)
    \/ \E st \in {StError, StUnloaded, StPlaying, StPaused} : LateStatus(st)

LateSpec == EngineSpecInit /\ [][LateNext]_vars

\* C36 (as stated): in the live state of a video session isEnded and
\* isPlaying are never both true, whatever engine status callbacks and
\* control calls (play, pause, seek, skip, togglePlay) have happened.
C36_AsStated == player.mounted => ~(player.isEnded /\ player.isPlaying)

---------------------------------------------------------------------------
(* Claims about the video session *)

\* the rendered session has taken the place of an earlier one without a close
Replaced == player.mounted /\ player.replaced > 0 /\ player.options = videoOptions

Reopened == player.mounted /\ player.replaced > 0 /\ player.resolvedUri = "null"

\* C19: a second open() while a session is not Closed starts fresh: the new
\* session begins in the Opening state with no error, not ended, and
\* position, duration and buffered reset; no Error or Ended state of the
\* previous session carries over into the new one.
C19_AsStated ==
    Reopened => /\ View(player) = "spinner"
                /\ player.error = ""
                /\ ~player.isEnded
                /\ player.position = 0 /\ player.duration = 0 /\ player.buffered = 0

InError(p) == p.mounted /\ p.error # ""

\* C20: once the playback engine has reported an error, the video session is
\* in Error (the error text is shown in place of the video) and stays in Error
\* under every later engine status callback and every control call (play,
\* pause, togglePlay, seek, skip) until close() is called: it leaves Error
\* only when the player is unmounted, which follows a close.
C20_ErrorTerminal ==
    [][/\ InError(player) => View(player) = "error"
       /\ (InError(player) /\ ~InError(player'))
             => ~player'.mounted /\ videoOptions = "null" /\ vcount.closes > 0
       /\ (InError(player) /\ player'.mounted) => player'.error = player.error]_vars

\* in Error, after a loaded status and a control call that came later
C20_Witness ==
    /\ InError(player) /\ player.late = {"loaded", "control"}
    /\ player.isPlaying /\ player.position = 1
    /\ videoOptions # "null"

Ended(p) == p.mounted /\ p.isEnded

C8_AsStated == vcount.onClose = vcount.closes

\* isOpen is false and the render that follows the close has been done
Closed == videoOptions = "null" /\ ~player.mounted

---------------------------------------------------------------------------
(* The audio notification: MediaPlayerProvider's notifInfo and handlersRef *)
(* and the platform's media surface                                        *)

\* setupWebMediaSession(info, h): metadata set; a handler is set for each
\* action whose handler is present in h, the other actions are left alone
setupWebMediaSession(ms, info, h) ==
    [metadata |-> info,
     handlers |-> [a \in MediaActions |->
                     IF h[HandlerOf(a)] # "none" THEN h[HandlerOf(a)] ELSE ms.handlers[a]]]

\* clearWebMediaSession(): metadata null, every action handler null
clearWebMediaSession(ms) == NoSession

\* setupNativeMediaNotification(info, h): the track's metadata; h is not used
setupNativeMediaNotification(ms, info, h) == [ms EXCEPT !.metadata = info]

\* clearNativeMediaNotification(): TP.reset()
clearNativeMediaNotification(ms) == [ms EXCEPT !.metadata = "null"]

Setup(ms, info, h) ==
    IF platform = "web" THEN setupWebMediaSession(ms, info, h)
    ELSE setupNativeMediaNotification(ms, info, h)

MusicOnly == UNCHANGED <<platform, regVars, navVars, videoVars, evalVars, skipVars,
               bridgeVars, zipVars, openVars, tabLayout>>

\* musicNotification.update(i): setNotifInfo(i)
MusicUpdate(i) ==
    /\ i # notifInfo /\ i # rendered
    /\ notifInfo' = i
    /\ UNCHANGED <<rendered, handlersRef, mediaSession, invoked, prevHandlers>>
    /\ MusicOnly

\* the render after notifInfo changed, and the [notifInfo] effect
MusicRender ==
    /\ rendered # notifInfo
    /\ rendered' = notifInfo
    /\ mediaSession' = IF notifInfo # "null"
                       THEN Setup(mediaSession, notifInfo, handlersRef)
                       ELSE mediaSession
    /\ UNCHANGED <<notifInfo, handlersRef, invoked, prevHandlers>>
    /\ MusicOnly

\* musicNotification.setHandlers(h); notifInfo is the one of the latest render
MusicSetHandlers(h) ==
    /\ prevHandlers' = handlersRef
    /\ handlersRef' = h
    /\ mediaSession' = IF rendered # "null"
                       THEN Setup(mediaSession, rendered, h)
                       ELSE mediaSession
    /\ invoked' = NoEvent
    /\ UNCHANGED <<notifInfo, rendered>>
    /\ MusicOnly

\* musicNotification.clear()
MusicClear ==
    /\ notifInfo' = "null"
    /\ mediaSession' = IF platform = "web" THEN clearWebMediaSession(mediaSession)
                       ELSE clearNativeMediaNotification(mediaSession)
    /\ UNCHANGED <<rendered, handlersRef, invoked, prevHandlers>>
    /\ MusicOnly

\* the platform delivers a media action: the handler set for it, if any, runs
PlatformEvent(a) ==
    /\ invoked' = [event |-> a, handler |-> mediaSession.handlers[a]]
    /\ UNCHANGED <<notifInfo, rendered, handlersRef, mediaSession, prevHandlers>>
    /\ MusicOnly

MusicSpecInit == Init /\ persisted = <<>>

MusicNext ==
    \/ \E i \in Infos : MusicUpdate(i)
    \/ MusicRender
    \/ \E h \in HandlerSets : MusicSetHandlers(h)
    \/ MusicClear
    \/ \E a \in MediaActions : PlatformEvent(a)

MusicSpec == MusicSpecInit /\ [][MusicNext]_vars

---------------------------------------------------------------------------
(* Claims about the audio notification *)

\* C10: setHandlers replaces the registered handlers wholesale: after
\* setHandlers({onPlay: f1}) and then setHandlers({onPause: f2}), a platform
\* 'play' event does not invoke f1.
C10_AsStated ==
    (/\ prevHandlers = Handlers("f1", "none", "none")
     /\ handlersRef = Handlers("none", "f2", "none")
     /\ invoked.event = "play")
        => invoked.handler # "f1"

\* C23: setHandlers(h) re-synchronizes the platform surface exactly when a
\* snapshot is active at the time of the call; after clear() the snapshot is
\* null and the platform notification is torn down, and it stays torn down
\* until the next update(info): a setHandlers call issued after clear() does
\* not re-create it.  So while the snapshot is null the platform shows none.
C23_AsStated == notifInfo = "null" => mediaSession.metadata = "null"

\* C39 (as stated): clear() leaves the registered handler set unchanged, and
\* the handlers registered before clear() are the ones attached to the
\* platform surface by the next update(info): when the effect of that update
\* runs on the cleared surface, each media action has the registered handler
\* for it, and none where none is registered.
C39_AsStated ==
    [][/\ (notifInfo' = "null" /\ notifInfo # "null") => handlersRef' = handlersRef
       /\ (rendered' # rendered /\ notifInfo # "null" /\ mediaSession = NoSession)
            => \A a \in MediaActions :
                  mediaSession'.handlers[a] = handlersRef[HandlerOf(a)]]_vars

---------------------------------------------------------------------------
(* evalMainJs over the export objects main.js can leave *)

\* the values a field of an export object or of a tab can have
TextValues == {"", "x"}
ComponentValues == {"function", "undefined"}
ScreensValues == {"undefined", "object", "string", "zero"}

TabValues ==
    [id : TextValues, label : TextValues, icon : TextValues,
     component : ComponentValues, screens : ScreensValues]

TabLists == UNION {[1..n -> TabValues] : n \in 0..MaxTabs}

EvalSources ==
    {[throws |-> FALSE, exports |-> "object", id |-> i, name |-> n, version |-> 1,
      tabs |-> t] : i \in TextValues, n \in TextValues, t \in TabLists}
    \cup {ThrowSrc("a"), NoExportSrc}

EvalOnly == UNCHANGED <<platform, regVars, navVars, videoVars, musicVars, skipVars,
               bridgeVars, zipVars, openVars, tabLayout>>

\* const manifest = evalMainJs(mainJs), the throw caught by the caller
Eval ==
    /\ evalRes = NotRun
    /\ evalRes' = evalMainJs(evalSrc)
    /\ UNCHANGED evalSrc
    /\ EvalOnly

EvalSpecInit ==
    /\ platform = "web"
    /\ RegInit /\ persisted = <<>>
    /\ NavInit /\ VideoInit /\ MusicInit /\ SkipInit /\ BridgeInit /\ ZipInit /\ OpenInit /\ TabLayoutInit
    /\ evalSrc \in EvalSources
    /\ evalRes = NotRun

EvalNext == Eval

EvalSpec == EvalSpecInit /\ [][EvalNext]_vars

---------------------------------------------------------------------------
(* Claims about evalMainJs *)

Check(field, bad) == [field |-> field, bad |-> bad]

\* the requirements on one tab, in the order id, label, icon, component, screens
TabChecks(tab, badScreens) ==
    << Check("tab.id", ~Truthy(tab.id)),
       Check("tab.label", ~Truthy(tab.label)),
       Check("tab.icon", ~Truthy(tab.icon)),
       Check("tab.component", TypeOf(tab.component) # "function"),
       Check("tab.screens", tab.screens \in badScreens) >>

RECURSIVE AllTabChecks(_, _)
AllTabChecks(tabs, badScreens) ==
    IF tabs = <<>> THEN <<>>
    ELSE TabChecks(Head(tabs), badScreens) \o AllTabChecks(Tail(tabs), badScreens)

\* the requirements on an export object, in order
Checks(src, badScreens) ==
    << Check("id", ~Truthy(src.id)),
       Check("name", ~Truthy(src.name)),
       Check("tabs", src.tabs = <<>>) >> \o AllTabChecks(src.tabs, badScreens)

\* the field of the first requirement that is violated, "" if none is
FirstViolation(checks) ==
    LET bad == {k \in 1..Len(checks) : checks[k].bad}
    IN  IF bad = {} THEN ""
        ELSE checks[CHOOSE k \in bad : \A j \in bad : k <= j].field

\* the message that names a field
MessageOf(field) ==
    CASE field = "id"            -> "Missing field: id"
      [] field = "name"          -> "Missing field: name"
      [] field = "tabs"          -> "Missing or empty tabs array"
      [] field = "tab.id"        -> "Tab missing id"
      [] field = "tab.label"     -> "Tab missing label"
      [] field = "tab.icon"      -> "Tab missing icon"
      [] field = "tab.component" -> "Tab component must be a function"
      [] OTHER                   -> "Tab screens must be an object"

\* evalMainJs has run on an export object
Evaluated == evalRes # NotRun /\ ~evalSrc.throws /\ evalSrc.exports = "object"

RejectsFirst(badScreens) ==
    Evaluated =>
        LET field == FirstViolation(Checks(evalSrc, badScreens))
        IN  IF field = "" THEN evalRes = Ok(Manifest(evalSrc))
            ELSE evalRes = Err(MessageOf(field))

---------------------------------------------------------------------------
(* api.skip over the numbers it can be given *)

\* a < b for numbers that are not NaN
JsLess(a, b) ==
    CASE a.kind = "ninf" -> b.kind # "ninf"
      [] a.kind = "inf"  -> FALSE
      [] b.kind = "ninf" -> FALSE
      [] b.kind = "inf"  -> TRUE
      [] OTHER           -> a.v < b.v

\* a + b
JsAdd(a, b) ==
    CASE a.kind = "nan" \/ b.kind = "nan" -> NaN
      [] a.kind = "num" /\ b.kind = "num" -> JsNum(a.v + b.v)
      [] a.kind = "num" -> b
      [] b.kind = "num" -> a
      [] a.kind = b.kind -> a
      [] OTHER -> NaN

\* Math.min(a, b): NaN when an argument is NaN
MathMin(a, b) ==
    IF a.kind = "nan" \/ b.kind = "nan" THEN NaN
    ELSE IF JsLess(b, a) THEN b ELSE a

\* Math.max(a, b): NaN when an argument is NaN
MathMax(a, b) ==
    IF a.kind = "nan" \/ b.kind = "nan" THEN NaN
    ELSE IF JsLess(a, b) THEN b ELSE a

\* a skip that does not hold the target below the duration
skipNoUpper(duration, position, s) ==
    MathMax(JsNum(0), JsAdd(JsNum(position), s))

\* const t = Math.max(0, Math.min(duration, position + s))
skip(duration, position, s) ==
    MathMax(JsNum(0), MathMin(JsNum(duration), JsAdd(JsNum(position), s)))

\* the arguments an extension can pass to skip
SkipDeltas ==
    {JsNum(v) : v \in -(MaxSeconds + 1)..(MaxSeconds + 1)} \cup {NaN, Infinity, NegInfinity}

\* the extension calls api.skip(s)
Skip ==
    /\ ~skipTarget.called
    /\ skipTarget' = [called |-> TRUE,
                      t |-> skip(skipArgs.duration, skipArgs.position, skipArgs.s)]
    /\ UNCHANGED skipArgs
    /\ UNCHANGED <<platform, regVars, navVars, videoVars, musicVars, evalVars, bridgeVars, zipVars, openVars, tabLayout>>

\* duration and position as the status callbacks have left them: 0 and 0
\* before the first loaded status, then whatever the engine reported
SkipSpecInit ==
    /\ platform = "native"
    /\ RegInit /\ persisted = <<>>
    /\ NavInit /\ VideoInit /\ MusicInit /\ EvalInit /\ BridgeInit /\ ZipInit /\ OpenInit /\ TabLayoutInit
    /\ skipArgs \in [duration : 0..MaxSeconds, position : 0..MaxSeconds, s : SkipDeltas]
    /\ skipTarget = NotSkipped

SkipNext == Skip

SkipSpec == SkipSpecInit /\ [][SkipNext]_vars

InRange(t, duration) == t.kind = "num" /\ 0 <= t.v /\ t.v <= duration

\* C22 (as stated): skip(delta) seeks to max(0, min(duration, position +
\* delta)): for every delta, position and duration, duration 0 included, the
\* seek target lies within [0, duration].
C22_AsStated == skipTarget.called => InRange(skipTarget.t, skipArgs.duration)

\* C22 (as the code has it): for every delta that is a number, infinite ones
\* included, the target is position + delta held within [0, duration]; for a
\* delta that is NaN (skip called with no argument) the target is NaN.
C22_Clamped ==
    skipTarget.called =>
        IF skipArgs.s.kind = "nan" THEN skipTarget.t = NaN
        ELSE /\ InRange(skipTarget.t, skipArgs.duration)
             /\ skipArgs.s.kind = "num" =>
                   LET sum == skipArgs.position + skipArgs.s.v IN
                   skipTarget.t.v = IF sum < 0 THEN 0
                                    ELSE IF sum > skipArgs.duration THEN skipArgs.duration
                                    ELSE sum

\* a skip forward before the engine has reported a duration: the target is 0
C22_Witness ==
    /\ skipTarget.called
    /\ skipArgs.duration = 0 /\ skipArgs.s = JsNum(2)
    /\ skipTarget.t = JsNum(0)

---------------------------------------------------------------------------
(* The media player bridge: _globalMediaPlayerRef and the tables of buildAPI *)

BridgeOnly == UNCHANGED <<platform, regVars, navVars, videoVars, musicVars, evalVars, skipVars,
               zipVars, openVars, tabLayout>>

\* the values useLhubMediaPlayer() returns to ExtensionProvider, render
\* after render: "mp1", then "mp2"
NextBridge(ref) == IF ref = "null" THEN "mp1" ELSE "mp2"

\* the methods of the musicPlayer and videoPlayer tables
BridgeMethods ==
    {"musicPlayer.update", "musicPlayer.setHandlers", "musicPlayer.clear",
     "musicPlayer.getCurrent", "videoPlayer.open", "videoPlayer.close",
     "videoPlayer.isOpen"}

\* a table that keeps the bridge it found when it was built
ReachedAtBuild(table, ref) == table.slot

\* _globalMediaPlayerRef?.<method>: the bridge a call of the table reaches,
\* "null" when the call does nothing
Reached(table, ref) == ref

\* ExtensionProvider's effect on [mediaPlayer]: _setGlobalMediaPlayer(mediaPlayer)
SetGlobalMediaPlayer ==
    /\ globalMediaPlayerRef # "mp2"
    /\ globalMediaPlayerRef' = NextBridge(globalMediaPlayerRef)
    /\ UNCHANGED <<api, called>>
    /\ BridgeOnly

\* buildAPI() returns the tables handed to an extension
BuildAPI ==
    /\ api # [built |-> TRUE, slot |-> globalMediaPlayerRef]
    /\ api' = [built |-> TRUE, slot |-> globalMediaPlayerRef]
    /\ UNCHANGED <<globalMediaPlayerRef, called>>
    /\ BridgeOnly

\* the extension calls a method of its musicPlayer or videoPlayer table
BridgeCall(m) ==
    /\ api.built
    /\ called.n < MaxCalls
    /\ called' = [n |-> called.n + 1, method |-> m, slot |-> globalMediaPlayerRef,
                  bridge |-> Reached(api, globalMediaPlayerRef)]
    /\ UNCHANGED <<globalMediaPlayerRef, api>>
    /\ BridgeOnly

BridgeNext ==
    \/ SetGlobalMediaPlayer
    \/ BuildAPI
    \/ \E m \in BridgeMethods : BridgeCall(m)

BridgeSpec == NavSpecInit /\ [][BridgeNext]_vars

\* C30: every musicPlayer and videoPlayer call reaches the bridge that is in
\* the slot at the moment of the call (none while the slot is empty), also
\* through a table built while the slot was empty or held another value.
C30_ReadsSlotAtCall == called.n > 0 => called.bridge = called.slot

\* a table built while the slot was empty, the slot written twice since, and
\* a setHandlers call that reached the second bridge
C30_Witness ==
    /\ api = [built |-> TRUE, slot |-> "null"]
    /\ called.method = "musicPlayer.setHandlers"
    /\ called.slot = "mp2"
    /\ called.bridge = "mp2"

---------------------------------------------------------------------------
(* getJSZip: the zip library of the web build *)

ZipOnly == UNCHANGED <<platform, regVars, navVars, videoVars, musicVars, evalVars, skipVars,
               bridgeVars, openVars, tabLayout>>

\* parseLhubWeb calls getJSZip(): if window.JSZip is defined it is returned;
\* else a <script> for the CDN url is appended to document.head and the
\* call waits for its onload or onerror
GetJSZip ==
    /\ Len(zipCalls) < MaxZipCalls
    /\ zipCalls' = Append(zipCalls, IF windowJSZip THEN "cached" ELSE "loading")
    /\ UNCHANGED windowJSZip
    /\ ZipOnly

\* the script of call i has loaded and run: it defines window.JSZip; onload
\* resolves and the call returns window.JSZip
ScriptLoaded(i) ==
    /\ i \in 1..Len(zipCalls)
    /\ zipCalls[i] = "loading"
    /\ windowJSZip' = TRUE
    /\ zipCalls' = [zipCalls EXCEPT ![i] = "loaded"]
    /\ ZipOnly

\* the script of call i failed to load: onerror rejects, the install fails
ScriptFailed(i) ==
    /\ i \in 1..Len(zipCalls)
    /\ zipCalls[i] = "loading"
    /\ zipCalls' = [zipCalls EXCEPT ![i] = "failed"]
    /\ UNCHANGED windowJSZip
    /\ ZipOnly

ZipNext ==
    \/ GetJSZip
    \/ \E i \in 1..MaxZipCalls : ScriptLoaded(i)
    \/ \E i \in 1..MaxZipCalls : ScriptFailed(i)

ZipSpec == RaceInit /\ [][ZipNext]_vars

\* the scripts appended so far: one for each call that did not find window.JSZip
Fetches == Cardinality({i \in 1..Len(zipCalls) : zipCalls[i] # "cached"})

\* C34 (as stated): the zip library is fetched at most once per process: for
\* any number of web installs, those started before the first fetch has
\* finished included, at most one fetch is issued.
C34_AsStated == Fetches <= 1

---------------------------------------------------------------------------
(* videoPlayer.isOpen() of the sandbox handle *)

OpenOnly == UNCHANGED <<platform, regVars, navVars, videoVars, musicVars, evalVars, skipVars,
               bridgeVars, zipVars, tabLayout>>

\* MediaPlayerProvider renders: value.videoPlayer.isOpen = videoOptions !== null;
\* ExtensionProvider renders with the new context value and its effect on
\* [mediaPlayer] runs _setGlobalMediaPlayer(mediaPlayer)
Publish ==
    /\ slotIsOpen # (videoOptions # "null")
    /\ slotIsOpen' = (videoOptions # "null")
    /\ UNCHANGED isOpenResult
    /\ OpenOnly

\* the extension calls videoPlayer.isOpen():
\* return _globalMediaPlayerRef?.videoPlayer.isOpen ?? false
IsOpen ==
    /\ isOpenResult' = [called |-> TRUE, value |-> slotIsOpen,
                        live |-> videoOptions # "null"]
    /\ UNCHANGED slotIsOpen
    /\ OpenOnly

OpenNext ==
    \/ \E o \in VideoOptions : VideoOpen(o)
    \/ VideoClose
    \/ Mount
    \/ Unmount
    \/ Publish
    \/ IsOpen

OpenSpec == EngineSpecInit /\ [][OpenNext]_vars

\* C37 (as stated): videoPlayer.isOpen() returns true exactly when a video
\* session is live: true on every call made after open(options) has returned
\* and before close, false on every call made after close() has returned.
C37_AsStated == isOpenResult.called => isOpenResult.value = isOpenResult.live

---------------------------------------------------------------------------
(* TabLayout: the active tab and the installed extensions *)

ShellOnly == UNCHANGED <<platform, regVars, navVars, videoVars, musicVars, evalVars, skipVars,
               bridgeVars, zipVars, openVars>>

\* the extensions of the shell's installs and the tab ids of their versions
ShellIds == {"a", "b"}
ShellTabs == {<<"home">>, <<"main">>, <<"home", "list">>}

\* const allExtTabs = extensions.flatMap(ext => ext.manifest.tabs.map(...)):
\* the keys, in order
RECURSIVE allExtTabs(_)
allExtTabs(exts) ==
    IF exts = <<>> THEN <<>>
    ELSE [i \in 1..Len(Head(exts).tabs) |-> Key(Head(exts).id, Head(exts).tabs[i])]
            \o allExtTabs(Tail(exts))

\* allExtTabs.find(t => !t.key.startsWith(id + '__'))?.key ?? ''
NextKey(keys, id) ==
    LET others == SelectSeq(keys, LAMBDA k : k.ext # id)
    IN  IF others = <<>> THEN NoKey ELSE Head(others)

\* an install settles: setExtensions(prev => [...prev.filter(other ids), installed])
ShellInstall(id, tabs) ==
    /\ ~\E i \in 1..Len(tabLayout.extensions) :
            tabLayout.extensions[i] = [id |-> id, tabs |-> tabs]
    /\ tabLayout' = [tabLayout EXCEPT !.extensions =
                        Upsert(@, [id |-> id, tabs |-> tabs])]
    /\ ShellOnly

\* the effect on [extensions]: if (!activeKey && extensions.length > 0) the
\* first tab of the first extension becomes the active and the rendered tab
AutoActivate ==
    /\ tabLayout.activeKey = NoKey
    /\ tabLayout.extensions # <<>>
    /\ LET first == tabLayout.extensions[1]
           key == Key(first.id, first.tabs[1])
       IN  tabLayout' = [tabLayout EXCEPT !.activeKey = key, !.renderedKey = key]
    /\ ShellOnly

\* handleSelectTab(key) for a tab of the drawer, once the drawer has closed
ShellSelectTab(k) ==
    /\ k \in 1..Len(allExtTabs(tabLayout.extensions))
    /\ LET key == allExtTabs(tabLayout.extensions)[k] IN
       /\ key # tabLayout.activeKey
       /\ tabLayout' = [tabLayout EXCEPT !.activeKey = key, !.renderedKey = key]
    /\ ShellOnly

\* doRemove of handleUninstall(ext): uninstallExtension(id); when the active
\* tab is one of ext's, the first tab of another extension, or none, is set
HandleUninstall(id) ==
    /\ id \in ExtIds(tabLayout.extensions)
    /\ LET next == NextKey(allExtTabs(tabLayout.extensions), id) IN
       tabLayout' = [extensions |-> Remove(tabLayout.extensions, id),
                     activeKey |-> IF tabLayout.activeKey.ext = id THEN next
                                   ELSE tabLayout.activeKey,
                     renderedKey |-> IF tabLayout.activeKey.ext = id THEN next
                                     ELSE tabLayout.renderedKey]
    /\ ShellOnly

ShellNext ==
    \/ \E id \in ShellIds, tabs \in ShellTabs : ShellInstall(id, tabs)
    \/ AutoActivate
    \/ \E k \in 1..4 : ShellSelectTab(k)
    \/ \E id \in ShellIds : HandleUninstall(id)

ShellSpec == NavSpecInit /\ [][ShellNext]_vars

\* C40 (as stated): in the tab shell, whenever at least one extension is
\* installed and a tab has been activated, the active and rendered tab key
\* is the key of a tab of an installed extension, also after the uninstall of
\* the extension that owns the active tab and after a re-install of an
\* extension whose new version has other tab ids.
C40_AsStated ==
    (tabLayout.extensions # <<>> /\ tabLayout.activeKey # NoKey) =>
        /\ tabLayout.activeKey \in Range(allExtTabs(tabLayout.extensions))
        /\ tabLayout.renderedKey \in Range(allExtTabs(tabLayout.extensions))

=============================================================================
